---- MODULE Spec2Model ----
(***************************************************************************)
(* A state-machine model of the m4vgalib scan-out driver (src/vga.cc).     *)
(*                                                                         *)
(* Three execution contexts share the driver's globals:                    *)
(*   - the TIM4 handler (highest priority): start_of_active_video and      *)
(*     end_of_active_video run to completion, so each is one action;       *)
(*   - the PendSV handler (lowest exception priority): it can be preempted *)
(*     by TIM4 between any two of its memory accesses, so it is a sequence *)
(*     of steps with a program counter (psv.pc) and registers;             *)
(*   - thread mode (the application): it runs only while no exception is   *)
(*     pending or active; its calls are sequences of steps too (fg.pc).    *)
(* The DMA stream is a hardware process of its own.                        *)
(*                                                                         *)
(* Pointers are small integers, 0 is nullptr.  A Band pointer is an index  *)
(* into `bands`, the caller-owned band storage.                            *)
(***************************************************************************)
EXTENDS Integers, Sequences, FiniteSets, TLC

VARIABLES
  current_timing,        \* static Timing current_timing
  current_line,          \* static unsigned volatile current_line
  state,                 \* static State volatile state
  scan_buffer,           \* DMA source row (abstract contents)
  working,               \* rasterization target row (abstract contents)
  working_buffer_shape,  \* Rasterizer::LineShape of the working row
  band_list_head,        \* static Band const *band_list_head
  current_band,          \* static Band current_band
  band_list_taken,       \* static std::atomic<bool> band_list_taken
  bands,                 \* caller-owned Band storage, address -> Band
  tim3, tim4,            \* the two horizontal timers' registers
  vsync_pin,             \* GPIOB pin 7
  dma,                   \* DMA2 stream 1: enable bit and NDTR
  pendsv,                \* SCB ICSR.PENDSVSET
  hw,                    \* timer chain: running, and which compare event is next
  psv,                   \* PendSV handler: program counter and registers
  fg,                    \* thread mode: program counter of the call in progress
  hist                   \* history variables (observations only, never read by the code)

vars == <<current_timing, current_line, state, scan_buffer, working,
          working_buffer_shape, band_list_head, current_band, band_list_taken,
          bands, tim3, tim4, vsync_pin, dma, pendsv, hw, psv, fg, hist>>

(***************************************************************************)
(* Machine arithmetic.                                                     *)
(***************************************************************************)
\* unsigned short: static_cast<unsigned short>(x).
U16(x) == x % 65536

\* unsigned and Word are 32 bits wide.  A value is represented by the integer
\* congruent to it modulo 2^32 that lies in [-2^31, 2^31), the range of the
\* model checker's integers; so 0xFFFFFFFF is -1, a sum or difference is the
\* plain sum or difference (every value of the model stays far inside the
\* range), and a difference that underflows shows as a negative number.
unsigned_minus_one == -1        \* static_cast<unsigned>(-1)

(***************************************************************************)
(* enum class State and its inspectors.                                    *)
(***************************************************************************)
State_blank     == 0
State_starting  == 1
State_active    == 3
State_finishing == 2

\* A plausible slip: testing the other bit.
is_displayed_state_wrong_bit(s) == s % 2 = 1

is_displayed_state(s) == (s \div 2) % 2 = 1

\* A plausible slip: testing the other bit.
is_rendered_state_wrong_bit(s) == (s \div 2) % 2 = 1

is_rendered_state(s) == s % 2 = 1

(***************************************************************************)
(* Data.                                                                   *)
(***************************************************************************)
nullptr == 0

\* The row contents before any rasterizer has run (zero-initialised, or the
\* 0xFF/0x00 scribble pattern of configure_timing).
Scribble == -1

EmptyBand == [rasterizer |-> nullptr, line_count |-> 0, next |-> nullptr]

MkBand(r, n, nx) == [rasterizer |-> r, line_count |-> n, next |-> nx]

MkTiming(lp, sp, bp, vp, lead, vpol, vs, ve, s, e) ==
  [line_pixels |-> lp, sync_pixels |-> sp, back_porch_pixels |-> bp,
   video_pixels |-> vp, video_lead |-> lead, vsync_polarity |-> vpol,
   vsync_start_line |-> vs, vsync_end_line |-> ve,
   video_start_line |-> s, video_end_line |-> e]

ZeroTiming == MkTiming(0, 0, 0, 0, 0, "positive", 0, 0, 0, 0)

ZeroTimer == [arr |-> 0, ccr1 |-> 0, ccr2 |-> 0, ccr3 |-> 0]

PsvIdle == [pc |-> "idle", line |-> 0, lc |-> 0, p |-> nullptr, r |-> nullptr]

FgIdle == [pc |-> "idle", op |-> "none"]

HistInit == [late |-> FALSE, xfers |-> 0, rows |-> {}, cleared |-> FALSE,
             retaken |-> FALSE, events |-> 0, visited |-> <<>>,
             returned |-> <<>>, exec |-> 0, hooks |-> 0, lines |-> FALSE,
             links |-> 0, from |-> nullptr, started |-> FALSE,
             snap |-> nullptr, since |-> FALSE]

\* The rasterizers are external; each reports a fixed LineShape.
Rasterizers == {1, 2}

rasterize_shape(r) == [offset |-> r - 1, length |-> 4 * r]

(***************************************************************************)
(* Bounds of the model.                                                    *)
(***************************************************************************)
\* end_of_active_video is not taken once current_line has reached LineCap
\* (only a profile whose line counter never wraps gets there).
LineCap == 8

(***************************************************************************)
(* init(): the state after construction.  Statics are zero-initialised;    *)
(* init() itself sets band_list_head and band_list_taken.  The timers are  *)
(* not running until configure_timing.                                     *)
(***************************************************************************)
init(store) ==
  /\ current_timing = ZeroTiming
  /\ current_line = 0
  /\ state = State_blank
  /\ scan_buffer = [row |-> Scribble, words |-> 0]
  /\ working = [row |-> Scribble]
  /\ working_buffer_shape = [offset |-> 0, length |-> 0]
  /\ band_list_head = nullptr
  /\ current_band = EmptyBand
  /\ band_list_taken = FALSE
  /\ bands = store
  /\ tim3 = ZeroTimer
  /\ tim4 = ZeroTimer
  /\ vsync_pin = FALSE
  /\ dma = [en |-> FALSE, ndtr |-> 0]
  /\ pendsv = FALSE
  /\ hw = [running |-> FALSE, next_cc |-> 2]
  /\ psv = PsvIdle
  /\ fg = FgIdle
  /\ hist = HistInit

\* Thread mode runs only while no exception is pending or active.
ThreadMode == ~pendsv /\ psv.pc = "idle"

(***************************************************************************)
(* configure_timing and configure_h_timer.                                 *)
(***************************************************************************)
\* A plausible slip: forgetting the lead.
configure_h_timer_no_lead(timing) ==
  [arr  |-> timing.line_pixels - 1,
   ccr1 |-> timing.sync_pixels,
   ccr2 |-> timing.sync_pixels + timing.back_porch_pixels,
   ccr3 |-> timing.sync_pixels + timing.back_porch_pixels
                + timing.video_pixels]

configure_h_timer(timing) ==
  [arr  |-> timing.line_pixels - 1,
   ccr1 |-> timing.sync_pixels,
   ccr2 |-> timing.sync_pixels + timing.back_porch_pixels
                - timing.video_lead,
   ccr3 |-> timing.sync_pixels + timing.back_porch_pixels
                + timing.video_pixels]

\* tim3.write_ccr2(static_cast<Word>(tim3.read_ccr2()) - 7)
tim3_adjust(tim) == [tim EXCEPT !.ccr2 = @ - 7]

configure_timing(timing) ==
  /\ fg.pc = "idle" /\ ThreadMode
  /\ ~dma.en                               \* busy-wait for pending DMA
  /\ tim3' = tim3_adjust(configure_h_timer(timing))
  /\ tim4' = configure_h_timer(timing)
  /\ vsync_pin' = (timing.vsync_polarity = "negative")
  /\ working' = [row |-> Scribble]         \* scribble over working buffer
  /\ current_line' = 0
  /\ current_timing' = timing
  /\ hw' = [running |-> TRUE, next_cc |-> 2]   \* timers restart from zero
  /\ UNCHANGED <<state, scan_buffer, working_buffer_shape, band_list_head,
                 current_band, band_list_taken, bands, dma, pendsv, psv, fg>>

(***************************************************************************)
(* The TIM4 handler.  CC2 and CC3 alternate, CC2 first.                    *)
(***************************************************************************)
start_of_active_video ==
  /\ hw.running /\ hw.next_cc = 2
  /\ hw' = [hw EXCEPT !.next_cc = 3]
  /\ dma' = IF is_displayed_state(state) THEN [dma EXCEPT !.en = TRUE] ELSE dma
  /\ UNCHANGED <<current_timing, current_line, state, scan_buffer, working,
                 working_buffer_shape, band_list_head, current_band,
                 band_list_taken, bands, tim3, tim4, vsync_pin, pendsv, psv, fg>>

\* A plausible slip: the frame-start arm is missing.
vertical_branch_no_blank(line, timing) ==
  IF line \in {timing.vsync_start_line, timing.vsync_end_line} THEN "vsync"
  ELSE IF line = U16(timing.video_start_line - 1) THEN "starting"
  ELSE IF line = timing.video_start_line THEN "active"
  ELSE IF line = U16(timing.video_end_line - 1) THEN "finishing"
  ELSE "none"

\* Which arm of the if / else-if chain of end_of_active_video is taken.
vertical_branch(line, timing) ==
  IF line = 0 THEN "blank"
  ELSE IF line \in {timing.vsync_start_line, timing.vsync_end_line} THEN "vsync"
  ELSE IF line = U16(timing.video_start_line - 1) THEN "starting"
  ELSE IF line = timing.video_start_line THEN "active"
  ELSE IF line = U16(timing.video_end_line - 1) THEN "finishing"
  ELSE "none"

\* A plausible slip: no else arm, a null head leaves current_band as it is.
snapshot_band_no_else(head, store) ==
  IF head # nullptr THEN store[head] ELSE current_band

\* The band copied into current_band at the Starting transition.
snapshot_band(head, store) == IF head # nullptr THEN store[head] ELSE EmptyBand

end_of_active_video ==
  LET timing == current_timing
      line   == current_line
      branch == vertical_branch(line, timing)
  IN /\ hw.running /\ hw.next_cc = 3
     /\ current_line < LineCap
     /\ hw' = [hw EXCEPT !.next_cc = 2]
     /\ tim4' = [tim4 EXCEPT !.ccr2 =
                   timing.sync_pixels + timing.back_porch_pixels
                       - timing.video_lead + working_buffer_shape.offset]
     /\ pendsv' = TRUE
     /\ state' = CASE branch = "blank"     -> State_blank
                   [] branch = "starting"  -> State_starting
                   [] branch = "active"    -> State_active
                   [] branch = "finishing" -> State_finishing
                   [] OTHER                -> state
     /\ vsync_pin' = IF branch = "vsync" THEN ~vsync_pin ELSE vsync_pin
     /\ current_band' = IF branch = "starting"
                        THEN snapshot_band(band_list_head, bands)
                        ELSE current_band
     /\ band_list_taken' = IF branch = "starting" THEN TRUE ELSE band_list_taken
     /\ current_line' = IF branch = "finishing"
                        THEN unsigned_minus_one + 1
                        ELSE line + 1
     /\ UNCHANGED <<current_timing, scan_buffer, working, working_buffer_shape,
                    band_list_head, bands, tim3, dma, psv, fg>>

\* The transfer completes (hardware).
dma_complete ==
  /\ dma.en
  /\ dma' = [en |-> FALSE, ndtr |-> 0]
  /\ UNCHANGED <<current_timing, current_line, state, scan_buffer, working,
                 working_buffer_shape, band_list_head, current_band,
                 band_list_taken, bands, tim3, tim4, vsync_pin, pendsv, hw,
                 psv, fg>>

(***************************************************************************)
(* etl_armv7m_pend_sv_handler, one action per memory access that TIM4 can  *)
(* separate from the next.  psv.pc names the access about to be made.      *)
(***************************************************************************)
PsvOthers == <<current_timing, current_line, state, band_list_head,
               band_list_taken, bands, tim3, tim4, vsync_pin, hw, fg>>

\* A plausible slip: returning at once when there is nothing to render.
pend_sv_entry_skip_hook ==
  /\ pendsv /\ psv.pc = "idle"
  /\ pendsv' = FALSE
  /\ psv' = [psv EXCEPT !.pc = IF is_rendered_state(state) THEN "flip_pad"
                                                            ELSE "idle"]
  /\ UNCHANGED <<scan_buffer, working, working_buffer_shape, current_band, dma>>
  /\ UNCHANGED PsvOthers

\* Exception entry, and the first test of `state` (line 533).
pend_sv_entry ==
  /\ pendsv /\ psv.pc = "idle"
  /\ pendsv' = FALSE
  /\ psv' = [psv EXCEPT !.pc = IF is_rendered_state(state) THEN "flip_pad"
                                                            ELSE "hook"]
  /\ UNCHANGED <<scan_buffer, working, working_buffer_shape, current_band, dma>>
  /\ UNCHANGED PsvOthers

\* scan_buffer word [length / 4] = 0 (lines 539-540).  What was there of the
\* previous row from that word on is gone.
flip_pad ==
  /\ psv.pc = "flip_pad"
  /\ scan_buffer' = [scan_buffer EXCEPT !.words =
                       IF working_buffer_shape.length \div 4 < @
                       THEN working_buffer_shape.length \div 4 ELSE @]
  /\ psv' = [psv EXCEPT !.pc = "flip_copy"]
  /\ UNCHANGED <<working, working_buffer_shape, current_band, dma, pendsv>>
  /\ UNCHANGED PsvOthers

\* copy_words(working.buffer, scan_buffer, length / 4) (lines 541-545).
flip_copy ==
  /\ psv.pc = "flip_copy"
  /\ scan_buffer' = [row |-> working.row,
                     words |-> working_buffer_shape.length \div 4]
  /\ psv' = [psv EXCEPT !.pc = "flip_ndtr"]
  /\ UNCHANGED <<working, working_buffer_shape, current_band, dma, pendsv>>
  /\ UNCHANGED PsvOthers

\* dma2.stream1.write_ndtr(length / 4 + 1) (line 546).
flip_ndtr ==
  /\ psv.pc = "flip_ndtr"
  /\ dma' = [dma EXCEPT !.ndtr = working_buffer_shape.length \div 4 + 1]
  /\ psv' = [psv EXCEPT !.pc = "hook"]
  /\ UNCHANGED <<scan_buffer, working, working_buffer_shape, current_band, pendsv>>
  /\ UNCHANGED PsvOthers

\* vga_hblank_interrupt(), the default no-op (line 549).
vga_hblank_interrupt ==
  /\ psv.pc = "hook"
  /\ psv' = [psv EXCEPT !.pc = "render_gate"]
  /\ UNCHANGED <<scan_buffer, working, working_buffer_shape, current_band, dma,
                 pendsv>>
  /\ UNCHANGED PsvOthers

\* The second test of `state` (line 551).
render_gate ==
  /\ psv.pc = "render_gate"
  /\ psv' = IF is_rendered_state(state) THEN [psv EXCEPT !.pc = "read_line"]
                                        ELSE PsvIdle
  /\ UNCHANGED <<scan_buffer, working, working_buffer_shape, current_band, dma,
                 pendsv>>
  /\ UNCHANGED PsvOthers

\* The range test of line 554.
line_in_range(line, timing) ==
  line >= timing.video_start_line /\ line <= timing.video_end_line

\* The read of current_line, the range test, visible_line (lines 553-555).
read_line ==
  /\ psv.pc = "read_line"
  /\ psv' = IF line_in_range(current_line, current_timing)
            THEN [psv EXCEPT !.pc = "gnr_test",
                             !.line = current_line
                                          - current_timing.video_start_line]
            ELSE PsvIdle
  /\ UNCHANGED <<scan_buffer, working, working_buffer_shape, current_band, dma,
                 pendsv>>
  /\ UNCHANGED PsvOthers

(***************************************************************************)
(* get_next_rasterizer (lines 516-529), inlined in the PendSV handler.     *)
(***************************************************************************)
\* if (current_band.line_count): the load of line_count (line 518).
gnr_test ==
  /\ psv.pc = "gnr_test"
  /\ psv' = IF current_band.line_count # 0
            THEN [psv EXCEPT !.pc = "gnr_dec", !.lc = current_band.line_count]
            ELSE [psv EXCEPT !.pc = "gnr_next"]
  /\ UNCHANGED <<scan_buffer, working, working_buffer_shape, current_band, dma,
                 pendsv>>
  /\ UNCHANGED PsvOthers

\* A plausible slip: the decremented count is never stored.
gnr_dec_no_store ==
  /\ psv.pc = "gnr_dec"
  /\ psv' = [psv EXCEPT !.pc = "gnr_ret", !.lc = 0]
  /\ UNCHANGED <<scan_buffer, working, working_buffer_shape, current_band, dma,
                 pendsv>>
  /\ UNCHANGED PsvOthers

\* --current_band.line_count: the store of the decremented count (line 519).
gnr_dec ==
  /\ psv.pc = "gnr_dec"
  /\ current_band' = [current_band EXCEPT !.line_count = psv.lc - 1]
  /\ psv' = [psv EXCEPT !.pc = "gnr_ret", !.lc = 0]
  /\ UNCHANGED <<scan_buffer, working, working_buffer_shape, dma, pendsv>>
  /\ UNCHANGED PsvOthers

\* return current_band.rasterizer (line 520).
gnr_ret ==
  /\ psv.pc = "gnr_ret"
  /\ psv' = [psv EXCEPT !.pc = "rasterize", !.r = current_band.rasterizer]
  /\ UNCHANGED <<scan_buffer, working, working_buffer_shape, current_band, dma,
                 pendsv>>
  /\ UNCHANGED PsvOthers

\* if (current_band.next): the load of next; else return nullptr
\* (lines 522, 526).
gnr_next ==
  /\ psv.pc = "gnr_next"
  /\ psv' = IF current_band.next # nullptr
            THEN [psv EXCEPT !.pc = "gnr_copy", !.p = current_band.next]
            ELSE [psv EXCEPT !.pc = "rasterize", !.r = nullptr]
  /\ UNCHANGED <<scan_buffer, working, working_buffer_shape, current_band, dma,
                 pendsv>>
  /\ UNCHANGED PsvOthers

\* A plausible slip: the next band is loaded but current_band is not advanced.
gnr_copy_no_advance ==
  /\ psv.pc = "gnr_copy"
  /\ psv' = [psv EXCEPT !.pc = "gnr_test", !.p = nullptr]
  /\ UNCHANGED <<scan_buffer, working, working_buffer_shape, current_band, dma,
                 pendsv>>
  /\ UNCHANGED PsvOthers

\* current_band = *current_band.next; return get_next_rasterizer()
\* (lines 523-524).
gnr_copy ==
  /\ psv.pc = "gnr_copy"
  /\ current_band' = bands[psv.p]
  /\ psv' = [psv EXCEPT !.pc = "gnr_test", !.p = nullptr]
  /\ UNCHANGED <<scan_buffer, working, working_buffer_shape, dma, pendsv>>
  /\ UNCHANGED PsvOthers

\* if (r) working_buffer_shape = r->rasterize(visible_line, working.buffer)
\* (lines 557-560), and the exception return.
rasterize ==
  /\ psv.pc = "rasterize"
  /\ working' = IF psv.r # nullptr THEN [row |-> psv.line] ELSE working
  /\ working_buffer_shape' = IF psv.r # nullptr THEN rasterize_shape(psv.r)
                                                ELSE working_buffer_shape
  /\ psv' = PsvIdle
  /\ UNCHANGED <<scan_buffer, current_band, dma, pendsv>>
  /\ UNCHANGED PsvOthers

(***************************************************************************)
(* Thread mode: configure_band_list and clear_band_list.                   *)
(***************************************************************************)
FgOthers == <<current_timing, current_line, state, scan_buffer, working,
              working_buffer_shape, current_band, bands, tim3, tim4,
              vsync_pin, dma, pendsv, hw, psv>>

\* A plausible slip: installing eagerly, current_band follows the new head.
configure_band_list_eager(head) ==
  /\ fg.pc = "idle" /\ ThreadMode
  /\ band_list_head' = head
  /\ current_band' = IF head # nullptr THEN bands[head] ELSE EmptyBand
  /\ fg' = [pc |-> "cbl_taken", op |-> "configure"]
  /\ UNCHANGED <<band_list_taken, current_timing, current_line, state,
                 scan_buffer, working, working_buffer_shape, bands, tim3, tim4,
                 vsync_pin, dma, pendsv, hw, psv>>

\* A plausible slip: the flag is not cleared.
configure_band_list_keep_taken(head) ==
  /\ fg.pc = "idle" /\ ThreadMode
  /\ band_list_head' = head
  /\ fg' = FgIdle
  /\ UNCHANGED band_list_taken
  /\ UNCHANGED FgOthers

\* configure_band_list(head): band_list_head = head (line 331).
configure_band_list(head) ==
  /\ fg.pc = "idle" /\ ThreadMode
  /\ band_list_head' = head
  /\ fg' = [pc |-> "cbl_taken", op |-> "configure"]
  /\ UNCHANGED band_list_taken
  /\ UNCHANGED FgOthers

\* clear_band_list(): configure_band_list(nullptr), first write (line 336).
clear_band_list ==
  /\ fg.pc = "idle" /\ ThreadMode
  /\ band_list_head' = nullptr
  /\ fg' = [pc |-> "cbl_taken", op |-> "clear"]
  /\ UNCHANGED band_list_taken
  /\ UNCHANGED FgOthers

\* band_list_taken = false (line 332), then return to the caller.
cbl_taken ==
  /\ fg.pc = "cbl_taken" /\ ThreadMode
  /\ band_list_taken' = FALSE
  /\ fg' = IF fg.op = "clear" THEN [fg EXCEPT !.pc = "clr_wait"] ELSE FgIdle
  /\ UNCHANGED band_list_head
  /\ UNCHANGED FgOthers

\* A plausible slip: returning without waiting for the flag.
clr_wait_done_no_wait(taken) == TRUE

\* The loop test of clear_band_list (line 337).
clr_wait_done(taken) == taken

\* while (!band_list_taken) wait_for_interrupt(): the exit of the loop.
clr_wait ==
  /\ fg.pc = "clr_wait" /\ ThreadMode
  /\ clr_wait_done(band_list_taken)
  /\ fg' = FgIdle
  /\ UNCHANGED <<band_list_head, band_list_taken>>
  /\ UNCHANGED FgOthers

(***************************************************************************)
(* The driver with its application: specification Spec.                    *)
(***************************************************************************)
\* The application's band storage: the chain 1 -> 2 and the chain 3.
MainBands == <<MkBand(1, 1, 2), MkBand(2, 3, nullptr), MkBand(2, 1, nullptr)>>

\* The heads the application installs.
MainHeads == {nullptr, 1, 3}

\* The application's video mode: vsync on lines 1-2, video on lines 4-5.
MainTimings == {MkTiming(100, 10, 20, 60, 5, "negative", 1, 2, 4, 6)}

Init == init(MainBands)

\* History: a deferred-task execution missed its line (it had not finished, or
\* not started, when the next end-of-visible-line event came); the transfers
\* armed and the visible lines rasterized in this frame; clear_band_list saw
\* band_list_taken go from false to true; the hook calls of the deferred-task
\* execution in progress (exec) and since the last end-of-visible-line event
\* (hooks); an end-of-visible-line event has come since activation (lines),
\* and one of them has set the state to Starting (started); the head the
\* last Starting transition copied current_band from (snap), and whether
\* configure_band_list has written band_list_head since then (since).
Tim4End ==
  /\ end_of_active_video
  /\ hist' = [hist EXCEPT
       !.late = @ \/ pendsv \/ psv.pc # "idle",
       !.xfers = IF current_line = 0 THEN 0 ELSE @,
       !.rows = IF current_line = 0 THEN {} ELSE @,
       !.hooks = 0,
       !.lines = TRUE,
       !.started = @ \/ state' = State_starting,
       !.snap = IF vertical_branch(current_line, current_timing) = "starting"
                THEN band_list_head ELSE @,
       !.since = IF vertical_branch(current_line, current_timing) = "starting"
                 THEN FALSE ELSE @,
       !.retaken = @ \/ (fg.pc = "clr_wait" /\ ~band_list_taken
                           /\ band_list_taken' /\ state' = State_starting)]

Tim4Start ==
  /\ start_of_active_video
  /\ hist' = [hist EXCEPT !.xfers = IF is_displayed_state(state) THEN @ + 1
                                                                  ELSE @]

DmaDone == dma_complete /\ UNCHANGED hist

PendSv ==
  /\ \/ pend_sv_entry \/ flip_pad \/ flip_copy \/ flip_ndtr
     \/ vga_hblank_interrupt \/ render_gate \/ read_line
     \/ gnr_test \/ gnr_dec \/ gnr_ret \/ gnr_next \/ gnr_copy
     \/ rasterize
  /\ hist' = [hist EXCEPT
       !.rows = IF psv.pc = "rasterize" /\ psv.r # nullptr
                THEN @ \cup {psv.line} ELSE @,
       !.exec = IF psv.pc = "idle" THEN 0
                ELSE IF psv.pc = "hook" THEN @ + 1 ELSE @,
       !.hooks = IF psv.pc = "hook" THEN @ + 1 ELSE @]

Activate ==
  /\ \E timing \in MainTimings : configure_timing(timing)
  /\ hist' = [hist EXCEPT !.xfers = 0, !.rows = {}, !.hooks = 0,
                           !.lines = FALSE, !.started = FALSE]

Install ==
  \E head \in MainHeads :
    /\ configure_band_list(head)
    /\ hist' = [hist EXCEPT !.cleared = IF head # nullptr THEN FALSE ELSE @,
                             !.since = TRUE]

ClearCall ==
  /\ clear_band_list
  /\ hist' = [hist EXCEPT !.cleared = FALSE, !.retaken = FALSE,
                           !.since = TRUE]

WriteTaken ==
  /\ cbl_taken
  /\ hist' = [hist EXCEPT !.retaken = FALSE]

ClearReturn ==
  /\ clr_wait
  /\ hist' = [hist EXCEPT !.cleared = TRUE]

Next == \/ Tim4Start \/ Tim4End \/ DmaDone \/ PendSv
        \/ Activate \/ Install \/ ClearCall \/ WriteTaken \/ ClearReturn

Spec == Init /\ [][Next]_vars

(***************************************************************************)
(* The vertical state machine alone, over many profiles: SpecVsm.          *)
(***************************************************************************)
MaxEndLine == 5

\* Every vertical layout with video_start_line < video_end_line <= MaxEndLine
\* and the vsync edges anywhere in 0 .. MaxEndLine.
VsmTimings ==
  {MkTiming(100, 10, 20, 60, 5, "negative", q[1], q[2], q[3], q[4]) :
     q \in {q \in (0 .. MaxEndLine) \X (0 .. MaxEndLine)
                  \X (0 .. MaxEndLine) \X (1 .. MaxEndLine) : q[3] < q[4]}}

VsmActivate ==
  /\ ~hw.running
  /\ \E timing \in VsmTimings : configure_timing(timing)
  /\ UNCHANGED hist

\* History: the number of end-of-visible-line events of the frame in progress
\* (a frame is video_end_line events), and the states entered during it.
VsmEnd ==
  /\ end_of_active_video
  /\ hist' = IF hist.events = 0 \/ hist.events >= current_timing.video_end_line
             THEN [hist EXCEPT !.events = 1, !.visited = <<state'>>]
             ELSE [hist EXCEPT !.events = @ + 1,
                               !.visited = IF state' # state
                                           THEN Append(@, state') ELSE @]

VsmStart == start_of_active_video /\ UNCHANGED hist

VsmNext == VsmActivate \/ VsmEnd \/ VsmStart \/ DmaDone

SpecVsm == Init /\ [][VsmNext]_vars

(***************************************************************************)
(* get_next_rasterizer alone, over many band lists: SpecBand.              *)
(***************************************************************************)
MaxBands == 3
MaxCount == 2
MaxCalls == 8

\* The storage of a list of n bands: band i at address i, linked to i + 1.
band_store(n, rs, cs) ==
  [i \in 1 .. MaxBands |->
     IF i <= n THEN MkBand(rs[i], cs[i], IF i < n THEN i + 1 ELSE nullptr)
               ELSE EmptyBand]

\* <<head, storage>> of every list of up to MaxBands bands.
BandLists ==
  {<<IF n = 0 THEN nullptr ELSE 1, band_store(n, rs, cs)>> :
     n \in 0 .. MaxBands,
     rs \in [1 .. MaxBands -> Rasterizers],
     cs \in [1 .. MaxBands -> 0 .. MaxCount]}

\* The driver right after a Starting transition has snapshotted the list.
BandInit ==
  \E l \in BandLists :
    /\ current_timing = ZeroTiming
    /\ current_line = 0
    /\ state = State_starting
    /\ scan_buffer = [row |-> Scribble, words |-> 0]
    /\ working = [row |-> Scribble]
    /\ working_buffer_shape = [offset |-> 0, length |-> 0]
    /\ band_list_head = l[1]
    /\ current_band = snapshot_band(l[1], l[2])
    /\ band_list_taken = TRUE
    /\ bands = l[2]
    /\ tim3 = ZeroTimer
    /\ tim4 = ZeroTimer
    /\ vsync_pin = FALSE
    /\ dma = [en |-> FALSE, ndtr |-> 0]
    /\ pendsv = FALSE
    /\ hw = [running |-> FALSE, next_cc |-> 2]
    /\ psv = PsvIdle
    /\ fg = FgIdle
    /\ hist = HistInit

\* vga::Rasterizer *r = get_next_rasterizer() (line 556): the call.
BandCall ==
  /\ psv.pc = "idle"
  /\ Len(hist.returned) < MaxCalls
  /\ psv' = [psv EXCEPT !.pc = "gnr_test"]
  /\ hist' = [hist EXCEPT !.links = 0, !.from = current_band.next]
  /\ UNCHANGED <<scan_buffer, working, working_buffer_shape, current_band, dma,
                 pendsv>>
  /\ UNCHANGED PsvOthers

\* History: the value each call returned; the `next` links the call in
\* progress has followed (counted up to MaxBands + 1) and the link
\* current_band held when it was made.
BandStep ==
  /\ gnr_test \/ gnr_dec \/ gnr_ret \/ gnr_next \/ gnr_copy
  /\ hist' = [hist EXCEPT
       !.returned = IF psv'.pc = "rasterize" THEN Append(@, psv'.r) ELSE @,
       !.links = IF psv.pc = "gnr_copy" /\ @ <= MaxBands THEN @ + 1 ELSE @]

BandUse == rasterize /\ UNCHANGED hist

BandNext == BandCall \/ BandStep \/ BandUse

SpecBand == BandInit /\ [][BandNext]_vars

\* The handler is not preempted here, so a call in progress takes its next
\* step.
SpecBandFair == SpecBand /\ WF_vars(BandStep)

(***************************************************************************)
(* configure_timing alone, over many horizontal layouts: SpecTiming.       *)
(***************************************************************************)
MaxLead == 9

SyncSet       == {2, 10}
BackPorchSet  == {3, 20}
VideoSet      == {8, 60}
FrontPorchSet == {1, 10}

TimerTimings ==
  {MkTiming(q[1] + q[2] + q[3] + q[4], q[1], q[2], q[3], q[5], q[6], 1, 2, 4, 6) :
     q \in SyncSet \X BackPorchSet \X VideoSet \X FrontPorchSet
           \X (0 .. MaxLead) \X {"positive", "negative"}}

TimingActivate ==
  /\ \E timing \in TimerTimings : configure_timing(timing)
  /\ UNCHANGED hist

SpecTiming == Init /\ [][TimingActivate]_vars

(***************************************************************************)
(* The hand-off alone, pixel by pixel, over many lengths: SpecFlip.  Here  *)
(* scan_buffer and working hold the pixels themselves, as sequences        *)
(* (pixel i of the code is element i + 1); a Word is four pixels.          *)
(***************************************************************************)
\* Stands for max_pixels_per_line (800): working.buffer has MaxPixels pixels,
\* scan_buffer has MaxPixels + 4.
MaxPixels == 6

\* What a rasterizer may have written, and what the previous row left.
PixelValues == {1, 2}
StalePixel == 3

\* scan_buffer before the hand-off: the previous row, and the four trailing
\* pixels configure_timing blanked.
StaleRow == [i \in 1 .. MaxPixels + 4 |-> IF i <= MaxPixels THEN StalePixel ELSE 0]

\* ((Word *) scan_buffer)[length / 4] = 0
pad_word(dst, length) ==
  [i \in DOMAIN dst |-> IF (i - 1) \div 4 = length \div 4 THEN 0 ELSE dst[i]]

\* copy_words(src, dst, n): the first n words of src into dst.
copy_words(src, dst, n) ==
  [i \in DOMAIN dst |-> IF i <= 4 * n THEN src[i] ELSE dst[i]]

\* The handler has passed the test of line 533; the working row and its
\* LineShape are whatever the last rasterizer left.
FlipInit ==
  \E len \in 0 .. MaxPixels, row \in [1 .. MaxPixels -> PixelValues] :
    /\ current_timing = ZeroTiming
    /\ current_line = 0
    /\ state = State_active
    /\ scan_buffer = StaleRow
    /\ working = row
    /\ working_buffer_shape = [offset |-> 0, length |-> len]
    /\ band_list_head = nullptr
    /\ current_band = EmptyBand
    /\ band_list_taken = TRUE
    /\ bands = <<>>
    /\ tim3 = ZeroTimer
    /\ tim4 = ZeroTimer
    /\ vsync_pin = FALSE
    /\ dma = [en |-> FALSE, ndtr |-> 0]
    /\ pendsv = FALSE
    /\ hw = [running |-> FALSE, next_cc |-> 2]
    /\ psv = [PsvIdle EXCEPT !.pc = "flip_pad"]
    /\ fg = FgIdle
    /\ hist = HistInit

\* Lines 539-540.
FlipPad ==
  /\ psv.pc = "flip_pad"
  /\ scan_buffer' = pad_word(scan_buffer, working_buffer_shape.length)
  /\ psv' = [psv EXCEPT !.pc = "flip_copy"]
  /\ UNCHANGED <<working, working_buffer_shape, current_band, dma, pendsv, hist>>
  /\ UNCHANGED PsvOthers

\* Lines 541-545.
FlipCopy ==
  /\ psv.pc = "flip_copy"
  /\ scan_buffer' = copy_words(working, scan_buffer,
                               working_buffer_shape.length \div 4)
  /\ psv' = [psv EXCEPT !.pc = "flip_ndtr"]
  /\ UNCHANGED <<working, working_buffer_shape, current_band, dma, pendsv, hist>>
  /\ UNCHANGED PsvOthers

\* Line 546.
FlipNdtr == flip_ndtr /\ UNCHANGED hist

FlipNext == FlipPad \/ FlipCopy \/ FlipNdtr

SpecFlip == FlipInit /\ [][FlipNext]_vars

(***************************************************************************)
(* clear_band_list against the running timers, over two profiles:          *)
(* SpecClear.                                                              *)
(***************************************************************************)
\* The profile of Spec, and one whose vsync pulse ends on the line before
\* the video (vsync_end_line = video_start_line - 1).
ClearTimings ==
  {MkTiming(100, 10, 20, 60, 5, "negative", 1, 2, 4, 6),
   MkTiming(100, 10, 20, 60, 5, "negative", 1, 3, 4, 6)}

ClearActivate ==
  /\ ~hw.running
  /\ \E timing \in ClearTimings : configure_timing(timing)
  /\ UNCHANGED hist

\* The line budget is kept: the deferred task has returned when the next
\* end-of-visible-line event comes.
ClearEnd == ThreadMode /\ Tim4End

ClearNext == \/ ClearActivate \/ Tim4Start \/ ClearEnd \/ DmaDone \/ PendSv
             \/ Install \/ ClearCall \/ WriteTaken \/ ClearReturn

\* The timers and the stream are hardware and keep going; a pended PendSV is
\* taken and runs on; thread mode gets the processor again and again, being
\* runnable whenever the PendSV handler has returned.
SpecClear ==
  /\ Init /\ [][ClearNext]_vars
  /\ WF_vars(Tim4Start) /\ SF_vars(ClearEnd) /\ WF_vars(DmaDone)
  /\ WF_vars(PendSv)
  /\ SF_vars(WriteTaken) /\ SF_vars(ClearReturn)

(***************************************************************************)
(* The driver with its band lists, over two profiles: SpecModes.           *)
(***************************************************************************)
\* The profile of Spec, and one whose vsync pulse ends on the last video
\* line (vsync_end_line = video_end_line - 1).
ModeTimings ==
  {MkTiming(100, 10, 20, 60, 5, "negative", 1, 2, 4, 6),
   MkTiming(100, 10, 20, 60, 5, "negative", 1, 5, 4, 6)}

ModeActivate ==
  /\ ~hw.running
  /\ \E timing \in ModeTimings : configure_timing(timing)
  /\ UNCHANGED hist

ModeNext == \/ ModeActivate \/ Tim4Start \/ Tim4End \/ DmaDone \/ PendSv
            \/ Install \/ WriteTaken

SpecModes == Init /\ [][ModeNext]_vars

(***************************************************************************)
(* The claims.                                                             *)
(***************************************************************************)

\* C1: clear_band_list() returns only after band_list_taken, which it wrote
\* false itself, has been written true by the end-of-visible-line handler at
\* a Starting transition (hist.retaken records exactly that write, made
\* while the call waits), whatever the interleaving.
C1_ClearReturnsAfterRetake ==
  [][(fg.pc = "clr_wait" /\ fg'.pc = "idle")
       => (hist.retaken /\ band_list_taken /\ band_list_head = nullptr)]_vars

\* A clear_band_list() call has returned.
C1_Witness == hist.cleared /\ fg.pc = "idle" /\ band_list_taken

\* C2: once clear_band_list() has returned and until a new list is
\* installed, current_band holds no rasterizer and no next pointer, and no
\* deferred-task execution is about to read a band through a pointer it
\* loaded or to invoke a rasterizer.
C2_NoReferenceAfterClear ==
  hist.cleared =>
    /\ current_band.rasterizer = nullptr
    /\ current_band.next = nullptr
    /\ psv.pc # "gnr_copy"
    /\ ~(psv.pc = "rasterize" /\ psv.r # nullptr)

\* The part of C2 about use alone: after clear_band_list() has returned, no
\* deferred-task execution reads a band through a pointer into the caller's
\* storage or invokes a rasterizer.
C2_NoUseAfterClear ==
  hist.cleared => (psv.pc # "gnr_copy" /\ ~(psv.pc = "rasterize" /\ psv.r # nullptr))

\* The sequence a band list stands for: each band's rasterizer, line_count
\* times, in list order.
RECURSIVE band_expansion(_, _)
band_expansion(store, b) ==
  IF b = nullptr THEN <<>>
  ELSE [i \in 1 .. store[b].line_count |-> store[b].rasterizer]
       \o band_expansion(store, store[b].next)

\* C3: the successive get_next_rasterizer() calls made on a list snapshotted
\* at a Starting transition return R1 n1 times, ..., Rk nk times, and then
\* nullptr on every later call.
C3_BandSequence ==
  LET expected == band_expansion(bands, band_list_head)
  IN \A i \in 1 .. Len(hist.returned) :
       hist.returned[i] = IF i <= Len(expected) THEN expected[i] ELSE nullptr

\* The list [(R1,2) -> (R2,1)] has been asked five times.
C3_Witness ==
  /\ band_list_head = 1
  /\ bands[1] = MkBand(1, 2, 2)
  /\ bands[2] = MkBand(2, 1, nullptr)
  /\ hist.returned = <<1, 1, 2, nullptr, nullptr>>

\* C4: after as many end-of-visible-line events as the frame has lines
\* (video_end_line of them, counted from current_line = 0), current_line is 0
\* again and the states entered were Blank, Starting, Active, Finishing, in
\* that order, each once, for every profile with
\* video_start_line < video_end_line.
C4_FrameCycle ==
  (hw.running /\ hist.events = current_timing.video_end_line)
    => /\ current_line = 0
       /\ hist.visited = <<State_blank, State_starting, State_active,
                           State_finishing>>

\* The profiles on which the arms of the else-if chain of
\* end_of_active_video are taken on five different lines.
C4_ArmsDistinct ==
  LET t == current_timing
  IN /\ 1 < t.video_start_line
     /\ t.video_start_line + 1 < t.video_end_line
     /\ {t.vsync_start_line, t.vsync_end_line}
          \cap {t.video_start_line - 1, t.video_start_line,
                t.video_end_line - 1} = {}

\* C4 on those profiles only.
C4_FrameCycleArmsDistinct == C4_ArmsDistinct => C4_FrameCycle

\* The profile with vsync on lines 1-2 and video on lines 3-4 (the vsync
\* pulse ends on line video_start_line - 1) has run one frame without ever
\* entering Starting.
C4_FailingProfile ==
  /\ current_timing.vsync_start_line = 1 /\ current_timing.vsync_end_line = 2
  /\ current_timing.video_start_line = 3 /\ current_timing.video_end_line = 5
  /\ hist.events = 5
  /\ hist.visited = <<State_blank, State_active, State_finishing>>

\* C5: no hand-off write into scan_buffer (the padding word or the copy) is
\* made while a transfer armed by start_of_active_video is still in progress
\* (stated for the runs in which no deferred-task execution missed its line).
C5_NoWriteDuringTransfer ==
  [][(psv.pc \in {"flip_pad", "flip_copy"} /\ psv'.pc # psv.pc /\ ~hist.late)
       => ~dma.en]_vars

C7_InstallIsLazy ==
  [][/\ (fg' # fg \/ band_list_head' # band_list_head)
          => UNCHANGED <<current_band, bands, psv, state, current_line,
                         working, working_buffer_shape, scan_buffer>>
     /\ (current_band' # current_band /\ psv' = psv)
          => (/\ state' = State_starting
              /\ band_list_taken'
              /\ current_band' = IF band_list_head # nullptr
                                 THEN bands[band_list_head] ELSE EmptyBand)]_vars

\* Mid-frame, list 3 is installed and not yet taken; current_band still is
\* the first band of list 1.
C7_Witness ==
  /\ fg.pc = "idle" /\ band_list_head = 3 /\ ~band_list_taken
  /\ state = State_active
  /\ current_band.next = 2

\* C8: when the (k+1)-th transfer of a frame is armed, the Scan Row holds the
\* row rasterized for visible line k in this frame (in the runs in which
\* every deferred-task execution finished within its line, and with the
\* deferred task idle at the arming).
C8_OneLineAhead ==
  [][(/\ hw.next_cc = 2 /\ hw'.next_cc = 3
      /\ hist'.xfers = hist.xfers + 1
      /\ hist.xfers \in hist.rows
      /\ ~hist.late /\ psv.pc = "idle" /\ ~pendsv)
       => scan_buffer.row = hist.xfers]_vars

\* C9: start_of_active_video arms a transfer exactly when the state is
\* Active or Finishing (otherwise it leaves the stream alone), and the
\* deferred task passes the gate to get_next_rasterizer only when the state
\* it reads is Starting or Active.
C9_GatesByStateBits ==
  [][/\ (hw.next_cc = 2 /\ hw'.next_cc = 3)
          => IF state \in {State_active, State_finishing}
             THEN dma'.en ELSE dma' = dma
     /\ (psv.pc = "render_gate" /\ psv'.pc = "read_line")
          => state \in {State_starting, State_active}]_vars

\* A transfer has been armed on the Finishing line.
C9_Witness ==
  state = State_finishing /\ hw.next_cc = 3 /\ dma.en /\ hist.xfers > 0

\* C10 as stated: after configure_timing both timers hold CCR1 = sync,
\* CCR2 = sync + back_porch - lead, CCR3 = sync + back_porch + visible.
C10_BothTimers ==
  hw.running =>
    \A tim \in {tim3, tim4} :
      /\ tim.ccr1 = current_timing.sync_pixels
      /\ tim.ccr2 = current_timing.sync_pixels
                    + current_timing.back_porch_pixels
                    - current_timing.video_lead
      /\ tim.ccr3 = current_timing.sync_pixels
                    + current_timing.back_porch_pixels
                    + current_timing.video_pixels

\* C10 amended: TIM4 holds those three values; TIM3 holds the same CCR1 and
\* CCR3, and CCR2 = sync + back_porch - lead - 7.
C10_TimerThresholds ==
  hw.running =>
    LET t == current_timing
    IN /\ tim4.ccr1 = t.sync_pixels
       /\ tim4.ccr2 = t.sync_pixels + t.back_porch_pixels - t.video_lead
       /\ tim4.ccr3 = t.sync_pixels + t.back_porch_pixels + t.video_pixels
       /\ tim3.ccr1 = t.sync_pixels
       /\ tim3.ccr2 = t.sync_pixels + t.back_porch_pixels - t.video_lead - 7
       /\ tim3.ccr3 = t.sync_pixels + t.back_porch_pixels + t.video_pixels

\* The profile 100 / 10 / 20 / 60 / 10 with lead 5 is active.
C10_Witness ==
  /\ hw.running
  /\ current_timing.line_pixels = 100 /\ current_timing.sync_pixels = 10
  /\ current_timing.back_porch_pixels = 20 /\ current_timing.video_pixels = 60
  /\ current_timing.video_lead = 5
  /\ tim4.ccr1 = 10 /\ tim4.ccr2 = 25 /\ tim4.ccr3 = 90
  /\ tim3.ccr1 = 10 /\ tim3.ccr2 = 18 /\ tim3.ccr3 = 90

\* C11: a deferred-task execution performs the hand-off (it goes on to the
\* padding word, the copy and the transfer count) exactly when the state it
\* reads at its entry is Active or Finishing.
C11_HandOffWhenTransmitting ==
  [][(psv.pc = "idle" /\ psv'.pc # "idle")
       => (psv'.pc = "flip_pad" <=> state \in {State_active, State_finishing})]_vars

\* C12: for every profile with video_start_line < video_end_line, the
\* end-of-visible-line event at line video_start_line - 1 sets the state to
\* Starting, snapshots the head into current_band and sets band_list_taken.
C12_StartingAtLineBeforeVideo ==
  [][(/\ hw.next_cc = 3 /\ hw'.next_cc = 2
      /\ current_line = current_timing.video_start_line - 1)
       => (/\ state' = State_starting
           /\ current_band' = IF band_list_head # nullptr
                              THEN bands[band_list_head] ELSE EmptyBand
           /\ band_list_taken')]_vars

\* C13: after activation current_line is always in [0, video_end_line).
C13_LineInFrame ==
  hw.running => (0 <= current_line /\ current_line < current_timing.video_end_line)

\* C14: every end-of-visible-line event pends the deferred task; every
\* deferred-task execution calls the hook exactly once, after the hand-off
\* steps and before get_next_rasterizer and the rasterizer; and in the runs in
\* which every execution finished within its line, exactly one hook call is
\* made between two successive end-of-visible-line events.
C14_HookOncePerLine ==
  [][/\ (hw.next_cc = 3 /\ hw'.next_cc = 2 /\ hist'.lines) => pendsv'
     /\ (psv.pc # "idle" /\ psv'.pc = "idle") => hist'.exec = 1
     /\ (psv.pc \in {"flip_pad", "flip_copy", "flip_ndtr", "hook"}
           /\ psv' # psv) => hist.exec = 0
     /\ (psv.pc \in {"render_gate", "read_line", "gnr_test", "gnr_dec",
                     "gnr_ret", "gnr_next", "gnr_copy", "rasterize"}
           /\ psv' # psv) => hist.exec = 1
     /\ (hw.next_cc = 3 /\ hw'.next_cc = 2 /\ hist.lines /\ hist'.lines
           /\ ~hist'.late)
          => hist.hooks = 1]_vars

\* The hook has just run in an execution entered in state Blank, on time.
C14_Witness ==
  /\ psv.pc = "render_gate" /\ state = State_blank
  /\ hist.exec = 1 /\ hist.hooks = 1 /\ hist.lines /\ ~hist.late

\* C15: for every LineShape length in [0, max_pixels_per_line], after the
\* hand-off the first `length` pixels of scan_buffer are those of the working
\* row, the pixel after them is zero, and the transfer count (in words)
\* covers the `length` pixels and the padding.
C15_HandOffCopiesLength ==
  psv.pc = "hook" =>
    LET length == working_buffer_shape.length
    IN /\ \A i \in 1 .. length : scan_buffer[i] = working[i]
       /\ scan_buffer[length + 1] = 0
       /\ 4 * dma.ndtr >= length + 1

\* The same for the lengths that are a multiple of 4.
C15_HandOffCopiesWords ==
  (working_buffer_shape.length % 4 = 0) => C15_HandOffCopiesLength

\* Length 5 handed off: pixel 4 of the working row is not in scan_buffer.
C15_FailingLength ==
  /\ psv.pc = "hook" /\ working_buffer_shape.length = 5
  /\ scan_buffer[5] = 0 /\ working[5] # 0

\* The number of bands of the chain that starts at p.
RECURSIVE chain_length(_, _)
chain_length(store, p) ==
  IF p = nullptr THEN 0 ELSE 1 + chain_length(store, store[p].next)

\* C16: a get_next_rasterizer() call follows at most as many `next` links as
\* there are bands after the current one in the list, and every call that
\* has begun returns.
C16_Terminates ==
  /\ [](hist.links <= chain_length(bands, hist.from))
  /\ (psv.pc \in {"gnr_test", "gnr_dec", "gnr_ret", "gnr_next", "gnr_copy"})
       ~> (psv.pc = "rasterize")

\* A call has gone through a run of two bands with line_count 0, following
\* two links, and has returned the third band's rasterizer.
C16_Witness ==
  /\ psv.pc = "rasterize" /\ psv.r # nullptr
  /\ hist.links = 2 /\ hist.from = 2
  /\ bands[1].line_count = 0 /\ bands[2].line_count = 0

\* C17: with the timers running on an activated profile, every
\* clear_band_list() call returns.
C17_ClearReturns ==
  (hw.running /\ fg.op = "clear") ~> (fg.pc = "idle")

\* The same, for the profile whose lines 0, vsync_start_line,
\* vsync_end_line and video_start_line - 1 are all different.
C17_ClearReturnsArmsDistinct ==
  (hw.running /\ fg.op = "clear" /\ current_timing.vsync_end_line = 2)
    ~> (fg.pc = "idle")

\* C18: the visible-line index passed to a rasterizer lies in
\* [0, video_end_line - video_start_line).
C18_VisibleLineInRange ==
  (psv.pc = "rasterize" /\ psv.r # nullptr)
    => (0 <= psv.line
        /\ psv.line < current_timing.video_end_line
                        - current_timing.video_start_line)

\* The same, for the profile whose line counter wraps (vsync pulse on
\* lines 1-2).
C18_VisibleLineInRangeWrapping ==
  (current_timing.vsync_end_line = 2) => C18_VisibleLineInRange

\* On the profile with vsync_end_line = video_end_line - 1 a rasterizer is
\* invoked with index 2, the number of visible lines, by an execution that
\* was not overrun.
C18_FailingIndex ==
  /\ psv.pc = "rasterize" /\ psv.r # nullptr
  /\ current_timing.vsync_end_line = 5
  /\ psv.line = 2 /\ current_line = 6
  /\ ~hist.late

\* C19: whenever in_vblank() would return true (current_line <
\* video_start_line) the state is not a transmitting one, so no
\* start-of-visible-area event arms a transfer while it holds.
C19_NoTransferInVblank ==
  (hw.running /\ current_line < current_timing.video_start_line)
    => ~is_displayed_state(state)

\* C19 amended: whenever in_vblank() would return true and current_line is
\* not 0, the state is not a transmitting one.  (On line 0 the state is
\* still Finishing, and the transfer of the last visible line is armed.)
C19_NoTransferInVblankAfterLineZero ==
  (hw.running /\ 0 < current_line
     /\ current_line < current_timing.video_start_line)
    => ~is_displayed_state(state)

\* A frame has been streamed, the line counter has wrapped and passed line
\* 0, and the state is Blank.
C19_Witness ==
  /\ hw.running /\ current_line = 2 /\ state = State_blank
  /\ scan_buffer.row # Scribble /\ hist.started

\* C20: from the return of configure_timing() to the first Starting
\* transition under the new profile the state is Blank: no transfer is
\* armed, no hand-off is made and no rasterizer is invoked.
C20_QuietUntilStarting ==
  [][(hw.running /\ ~hist.started)
       => (/\ ~(hw.next_cc = 2 /\ hw'.next_cc = 3 /\ dma'.en /\ dma' # dma)
           /\ ~(psv.pc \in {"flip_pad", "flip_copy", "flip_ndtr"}
                  /\ psv' # psv)
           /\ ~(psv.pc = "rasterize" /\ psv.r # nullptr /\ psv' # psv))]_vars

\* C21: in every state where no configure_band_list call is between its two
\* writes, band_list_taken true implies that the last Starting transition
\* copied current_band from the head now installed, and that
\* configure_band_list has not written band_list_head since.
C21_TakenMeansCurrentHead ==
  (fg.pc # "cbl_taken" /\ band_list_taken)
    => (hist.snap = band_list_head /\ ~hist.since)

\* A row has been rasterized in an earlier frame; list 3 is installed and a
\* Starting transition has just taken it.
C21_Witness ==
  /\ fg.pc = "idle" /\ band_list_taken /\ band_list_head = 3
  /\ hist.snap = 3 /\ ~hist.since
  /\ working.row # Scribble /\ state = State_starting

====
